---- MODULE Spec2Model ----
(***************************************************************************)
(* A model of pyArango/document.py: the Document and Edge objects, their   *)
(* local bookkeeping (store, patch store, identity attributes, modified    *)
(* flag) and the HTTP requests their operations issue.                     *)
(*                                                                         *)
(* Python dictionaries are functions from strings to strings; None is the  *)
(* string NoneV.  Every method is an operator from the object before the   *)
(* call to an outcome [obj, raised, reqs, ret]: the object after the call, *)
(* the exception that left the call ("none" when it returned), the HTTP    *)
(* requests it issued (with the server's answers) and the returned value.  *)
(***************************************************************************)
EXTENDS Integers, Sequences, FiniteSets, TLC

VARIABLES
    validation,  \* collection._validation: [on_set, on_save]
    objs,        \* the objects: self (a Document or an Edge), fromV, toV
    last,        \* the last call: its name, arguments, outcome and pre-state
    acked,       \* the content of self the server acknowledged last
    calls        \* number of calls made so far

vars == <<validation, objs, last, acked, calls>>

----------------------------------------------------------------------------
(* Bounds *)

NumServerIds == 2   \* distinct identities the server hands out
MaxCalls == 3       \* calls per behaviour

----------------------------------------------------------------------------
(* Values *)

NoneV == "None"
NoError == "none"
documentsURL == "docs"
EmptyDict == <<>>
NoRet == <<>>

ServerId(i) == "c/" \o ToString(i)
ServerRev(i) == "r" \o ToString(i)
ServerKey(i) == ToString(i)

Keys == {"a"}
BadValue == "bad"
Values == {"2", BadValue}

\* dict helpers
Update(d, e) ==
    [k \in (DOMAIN d) \cup (DOMAIN e) |-> IF k \in DOMAIN e THEN e[k] ELSE d[k]]
Del(d, ks) == [k \in (DOMAIN d) \ ks |-> d[k]]
Put(d, k, v) == [x \in (DOMAIN d) \cup {k} |-> IF x = k THEN v ELSE d[x]]

\* "%s/%s" % (self.documentsURL, self._id)
URLOf(id) == documentsURL \o "/" \o id

\* collection.validateField(k, v): raises ValidationError on a bad value
FieldValid(k, v) == v # BadValue

Outcome(o, raised, reqs, ret) ==
    [obj |-> o, raised |-> raised, reqs |-> reqs, ret |-> ret]

Request(verb, url, payload, params, resp) ==
    [verb |-> verb, url |-> url, payload |-> payload, params |-> params,
     resp |-> resp]

\* the status test of save and patch
SaveAccepted(resp) == resp.status \in {201, 202} /\ ~resp.error
\* the status test of delete (negated in the source)
DeleteAccepted(resp) == ~((resp.status # 200 /\ resp.status # 202) \/ resp.error)

----------------------------------------------------------------------------
(* Document *)

\* the except branch of setPrivates that leaves the URL
ClearPrivates_KeepsURL(o) ==
    [o EXCEPT !._id = NoneV, !._rev = NoneV, !._key = NoneV]

ClearPrivates(o) ==
    [o EXCEPT !._id = NoneV, !._rev = NoneV, !._key = NoneV, !.URL = NoneV]

\* setPrivates that forgets the key
DocSetPrivates_NoKey(o, fieldDict) ==
    IF "_id" \notin DOMAIN fieldDict
    THEN [obj |-> ClearPrivates(o), fieldDict |-> fieldDict]
    ELSE IF "_rev" \notin DOMAIN fieldDict
    THEN [obj |-> ClearPrivates(o), fieldDict |-> Del(fieldDict, {"_id"})]
    ELSE IF "_key" \notin DOMAIN fieldDict
    THEN [obj |-> ClearPrivates(o), fieldDict |-> Del(fieldDict, {"_id", "_rev"})]
    ELSE [obj |-> [o EXCEPT !._id = fieldDict["_id"],
                            !.URL = URLOf(fieldDict["_id"]),
                            !._rev = fieldDict["_rev"]],
          fieldDict |-> Del(fieldDict, {"_id", "_rev", "_key"})]

\* Document.setPrivates: returns the object and the (mutated) fieldDict
DocSetPrivates(o, fieldDict) ==
    IF "_id" \notin DOMAIN fieldDict
    THEN [obj |-> ClearPrivates(o), fieldDict |-> fieldDict]
    ELSE IF "_rev" \notin DOMAIN fieldDict
    THEN [obj |-> ClearPrivates(o), fieldDict |-> Del(fieldDict, {"_id"})]
    ELSE IF "_key" \notin DOMAIN fieldDict
    THEN [obj |-> ClearPrivates(o), fieldDict |-> Del(fieldDict, {"_id", "_rev"})]
    ELSE [obj |-> [o EXCEPT !._id = fieldDict["_id"],
                            !.URL = URLOf(fieldDict["_id"]),
                            !._rev = fieldDict["_rev"],
                            !._key = fieldDict["_key"]],
          fieldDict |-> Del(fieldDict, {"_id", "_rev", "_key"})]

\* Edge.setPrivates
EdgeSetPrivates(o, jsonFieldInit) ==
    LET o1 == IF {"_from", "_to"} \subseteq DOMAIN jsonFieldInit
              THEN [o EXCEPT !._from = jsonFieldInit["_from"],
                             !._to = jsonFieldInit["_to"]]
              ELSE [o EXCEPT !._from = NoneV, !._to = NoneV]
    IN  DocSetPrivates(o1, jsonFieldInit)

\* self.setPrivates(...), dispatched on the class of self
setPrivates(o, fieldDict) ==
    IF o.cls = "Edge" THEN EdgeSetPrivates(o, fieldDict)
    ELSE DocSetPrivates(o, fieldDict)

\* __setitem__ that mirrors into the patch store whatever the URL
SetItem_AlwaysMirrors(o, k, v, val) ==
    IF val.on_set /\ ~FieldValid(k, v)
    THEN Outcome(o, "ValidationError", <<>>, NoRet)
    ELSE Outcome([o EXCEPT !._store = Put(o._store, k, v),
                           !._patchStore = Put(o._patchStore, k, v),
                           !.modified = TRUE],
                 NoError, <<>>, NoRet)

\* Document.__setitem__
SetItem(o, k, v, val) ==
    IF val.on_set /\ ~FieldValid(k, v)
    THEN Outcome(o, "ValidationError", <<>>, NoRet)
    ELSE Outcome([o EXCEPT !._store = Put(o._store, k, v),
                           !._patchStore = IF o.URL # NoneV
                                           THEN Put(o._patchStore, k, v)
                                           ELSE o._patchStore,
                           !.modified = TRUE],
                 NoError, <<>>, NoRet)

\* the loop of set under on_set: the keys of done were assigned, in some
\* order, each by __setitem__
AssignAll(o, fieldDict, done) ==
    [o EXCEPT !._store = Update(o._store, Del(fieldDict, (DOMAIN fieldDict) \ done)),
              !._patchStore = IF o.URL # NoneV
                              THEN Update(o._patchStore,
                                          Del(fieldDict, (DOMAIN fieldDict) \ done))
                              ELSE o._patchStore,
              !.modified = IF done = {} THEN o.modified ELSE TRUE]

\* Document.set: the set of its possible outcomes (a dictionary is iterated
\* in an order the caller does not choose, so when a field fails validation
\* any set of valid fields may have been assigned before it)
Set(o, fieldDict, val) ==
    LET p == setPrivates(o, fieldDict)
        fd == p.fieldDict
        valid == {k \in DOMAIN fd : FieldValid(k, fd[k])}
    IN  IF val.on_set
        THEN IF valid = DOMAIN fd
             THEN {Outcome(AssignAll(p.obj, fd, DOMAIN fd), NoError, <<>>, NoRet)}
             ELSE {Outcome(AssignAll(p.obj, fd, done), "ValidationError", <<>>, NoRet) :
                      done \in SUBSET valid}
        ELSE {Outcome([p.obj EXCEPT !._store = Update(p.obj._store, fd)],
                      NoError, <<>>, NoRet)}

\* reset that leaves the patch store
Reset_KeepsPatchStore(o) ==
    LET o1 == [o EXCEPT !._store = EmptyDict]
        o2 == setPrivates(o1, EmptyDict).obj
    IN  [o2 EXCEPT !.modified = TRUE]

\* reset that empties the store and forgets the patch store and the identity
Reset_StoreOnly(o) ==
    [o EXCEPT !._store = EmptyDict, !.modified = TRUE]

\* Document.reset(collection) with the default jsonFieldInit = {}
Reset(o) ==
    LET o1 == [o EXCEPT !._store = EmptyDict, !._patchStore = EmptyDict]
        o2 == setPrivates(o1, EmptyDict).obj
    IN  [o2 EXCEPT !.modified = TRUE]

\* Document.validate is called with a keyword (logErrors) it does not accept
ValidateCall == "TypeError"

\* Document.save
DocSave(o, params, resp, val) ==
    IF ~o.modified THEN Outcome(o, NoError, <<>>, NoRet)
    ELSE IF val.on_save THEN Outcome(o, ValidateCall, <<>>, NoRet)
    ELSE
    LET update == o.URL # NoneV
        req == Request(IF update THEN "PUT" ELSE "POST",
                       IF update THEN o.URL ELSE documentsURL,
                       o._store, params, resp)
    IN  IF SaveAccepted(resp)
        THEN IF update
             THEN IF "_rev" \in DOMAIN resp.data
                  THEN Outcome([o EXCEPT !._rev = resp.data["_rev"],
                                         !.modified = FALSE],
                               NoError, <<req>>, NoRet)
                  ELSE Outcome(o, "KeyError", <<req>>, NoRet)
             ELSE Outcome([setPrivates(o, resp.data).obj EXCEPT !.modified = FALSE],
                          NoError, <<req>>, NoRet)
        ELSE Outcome(o, IF update THEN "UpdateError" ELSE "CreationError",
                     <<req>>, NoRet)

\* the params of a request: dict(docArgs) plus the collection's name
DocParams == [collection |-> "col"]

\* Arguments of Edge.save: None, a Document (its _id is read) or a string
NoneArg == [kind |-> "None", id |-> NoneV]
DocArg(d) == [kind |-> "Document", id |-> d._id]
StrArg(s) == [kind |-> "String", id |-> s]

\* Edge.save whose first test asks for both endpoints to be missing
EdgeSave_BothMissing(o, fromVertice, toVertice, resp, val) ==
    IF o.URL = NoneV /\ (fromVertice.kind = "None" /\ toVertice.kind = "None")
    THEN Outcome(o, "ValueError", <<>>, NoRet)
    ELSE IF fromVertice.kind # "Document" THEN Outcome(o, "NameError", <<>>, NoRet)
    ELSE IF toVertice.kind # "Document" THEN Outcome(o, "NameError", <<>>, NoRet)
    ELSE
    LET fromId == fromVertice.id
        toId == toVertice.id
        edgeArgs == [collection |-> "col", from |-> fromId, to |-> toId]
    IN  DocSave([o EXCEPT !._from = fromId, !._to = toId], edgeArgs, resp, val)

\* Edge.save: `types` is never imported, so the test of an argument that is
\* not a Document raises NameError
EdgeSave(o, fromVertice, toVertice, resp, val) ==
    IF o.URL = NoneV /\ (fromVertice.kind = "None" \/ toVertice.kind = "None")
    THEN Outcome(o, "ValueError", <<>>, NoRet)
    ELSE IF fromVertice.kind # "Document" THEN Outcome(o, "NameError", <<>>, NoRet)
    ELSE IF toVertice.kind # "Document" THEN Outcome(o, "NameError", <<>>, NoRet)
    ELSE
    LET fromId == fromVertice.id
        toId == toVertice.id
        edgeArgs == [collection |-> "col", from |-> fromId, to |-> toId]
    IN  DocSave([o EXCEPT !._from = fromId, !._to = toId], edgeArgs, resp, val)

\* self.save(**docArgs), dispatched on the class of self
Save(o, resp, val) ==
    IF o.cls = "Edge" THEN EdgeSave(o, NoneArg, NoneArg, resp, val)
    ELSE DocSave(o, DocParams, resp, val)

\* Document.forceSave
ForceSave(o, resp, val) == Save([o EXCEPT !.modified = TRUE], resp, val)

\* Document.saveCopy
SaveCopy(o, resp, val) ==
    LET old_key == o._key
        r == Save(Reset(o), resp, val)
    IN  IF r.raised = NoError
        THEN Outcome(r.obj, NoError, r.reqs, <<old_key, r.obj._key>>)
        ELSE r

\* Document.patch (keepNull = True)
Patch(o, resp, val) ==
    IF val.on_save THEN Outcome(o, ValidateCall, <<>>, NoRet)
    ELSE IF o.URL = NoneV THEN Outcome(o, "ValueError", <<>>, NoRet)
    ELSE IF o._patchStore # EmptyDict
    THEN LET req == Request("PATCH", o.URL, o._patchStore,
                            [collection |-> "col", keepNull |-> "True"], resp)
         IN  IF SaveAccepted(resp)
             THEN IF "_rev" \in DOMAIN resp.data
                  THEN Outcome([o EXCEPT !._rev = resp.data["_rev"],
                                         !.modified = FALSE],
                               NoError, <<req>>, NoRet)
                  ELSE Outcome(o, "KeyError", <<req>>, NoRet)
             ELSE Outcome(o, "UpdateError", <<req>>, NoRet)
    ELSE Outcome(o, NoError, <<>>, NoRet)

\* Document.delete
Delete(o, resp) ==
    IF o.URL = NoneV THEN Outcome(o, "DeletionError", <<>>, NoRet)
    ELSE LET req == Request("DELETE", o.URL, EmptyDict, EmptyDict, resp)
         IN  IF ~DeleteAccepted(resp)
             THEN Outcome(o, "DeletionError", <<req>>, NoRet)
             ELSE Outcome([Reset(o) EXCEPT !.modified = TRUE], NoError, <<req>>, NoRet)

\* Edge.links: the outcome of the edge and the two vertices after the call
Links(e, fromVertice, toVertice, r1, r2, r3, val) ==
    IF e.URL # NoneV
    THEN [edge |-> Outcome(e, "AttributeError", <<>>, NoRet),
          fromV |-> fromVertice, toV |-> toVertice,
          freqs |-> <<>>, treqs |-> <<>>]
    ELSE
    LET f == Save(fromVertice, r1, val)
        t == Save(toVertice, r2, val)
        s == EdgeSave(e, DocArg(f.obj), DocArg(t.obj), r3, val)
    IN  IF f.raised # NoError
        THEN [edge |-> Outcome(e, f.raised, <<>>, NoRet),
              fromV |-> f.obj, toV |-> toVertice,
              freqs |-> f.reqs, treqs |-> <<>>]
        ELSE IF t.raised # NoError
        THEN [edge |-> Outcome(e, t.raised, <<>>, NoRet),
              fromV |-> f.obj, toV |-> t.obj,
              freqs |-> f.reqs, treqs |-> t.reqs]
        ELSE [edge |-> s, fromV |-> f.obj, toV |-> t.obj,
              freqs |-> f.reqs, treqs |-> t.reqs]

----------------------------------------------------------------------------
(* Inputs *)

\* the reserved fields of a server answer
ServerFields(i) ==
    [_id |-> ServerId(i), _rev |-> ServerRev(i), _key |-> ServerKey(i)]

\* the dictionaries given to the constructor and to set
FieldDicts ==
    {EmptyDict, [a |-> "1"], [a |-> BadValue, b |-> "2"],
     Update(ServerFields(1), [a |-> "1"]),
     Del(ServerFields(1), {"_rev"}),
     Update(ServerFields(1), [_from |-> ServerId(1), _to |-> ServerId(2)])}

\* the dictionaries an object under test is constructed from
InitDicts(cls) ==
    IF cls = "Edge"
    THEN {EmptyDict,
          Update(ServerFields(1), [_from |-> ServerId(1), _to |-> ServerId(2)])}
    ELSE {EmptyDict, [a |-> "1"], Update(ServerFields(1), [a |-> "1"])}

\* the dictionaries the two vertices of an edge are constructed from
FromDicts == {Update(ServerFields(1), [a |-> "1"])}
ToDicts == {EmptyDict, Update(ServerFields(2), [a |-> "1"])}

Statuses == {200, 201, 202, 500}

\* the answers of the server: r.status_code, data['error'] and the reserved
\* fields of data
Responses ==
    {[status |-> 201, error |-> FALSE, data |-> d] :
        d \in {ServerFields(i) : i \in 1..NumServerIds}}
    \cup {[status |-> s, error |-> FALSE, data |-> ServerFields(1)] : s \in Statuses}
    \cup {[status |-> s, error |-> TRUE, data |-> ServerFields(1)] : s \in {200, 201}}

\* the answers to the vertices' own saves in links
VertexResponses ==
    {r \in Responses : r.status \in {201, 500} /\ ~r.error
                       /\ r.data = ServerFields(NumServerIds)}

----------------------------------------------------------------------------
(* The state machine *)

\* a freshly allocated object, before reset runs
New(cls) ==
    [cls |-> cls, _store |-> EmptyDict, _patchStore |-> EmptyDict,
     _id |-> NoneV, _rev |-> NoneV, _key |-> NoneV, URL |-> NoneV,
     modified |-> TRUE, _from |-> NoneV, _to |-> NoneV]

\* Document.__init__ / Edge.__init__: reset(collection, jsonFieldInit); the
\* objects it can return (none when set raises)
Construct(cls, jsonFieldInit, val) ==
    {[r.obj EXCEPT !.modified = TRUE] :
        r \in {x \in Set(New(cls), jsonFieldInit, val) : x.raised = NoError}}

NoArgs == [fieldDict |-> EmptyDict, k |-> NoneV, v |-> NoneV,
           from |-> NoneArg, to |-> NoneArg]

NoReqs == [self |-> <<>>, fromV |-> <<>>, toV |-> <<>>]

\* the content the server holds for self after the requests of a call
AckAfter(a, reqs) ==
    IF reqs = <<>> THEN a
    ELSE LET r == reqs[Len(reqs)]
         IN  IF r.verb \in {"POST", "PUT"} /\ SaveAccepted(r.resp) THEN r.payload
             ELSE IF r.verb = "PATCH" /\ SaveAccepted(r.resp) THEN Update(a, r.payload)
             ELSE IF r.verb = "DELETE" /\ DeleteAccepted(r.resp) THEN EmptyDict
             ELSE a

Init ==
    /\ validation \in [on_set : BOOLEAN, on_save : BOOLEAN]
    /\ \E cls \in {"Document", "Edge"} :
          \E fd \in InitDicts(cls), ff \in FromDicts,
             ft \in IF cls = "Edge" THEN ToDicts ELSE {EmptyDict} :
             \E s \in Construct(cls, fd, validation),
                f \in Construct("Document", ff, validation),
                t \in Construct("Document", ft, validation) :
                /\ objs = [self |-> s, fromV |-> f, toV |-> t]
                /\ last = [op |-> "__init__",
                           args |-> [NoArgs EXCEPT !.fieldDict = fd],
                           raised |-> NoError, reqs |-> NoReqs, ret |-> NoRet,
                           pre |-> objs]
    /\ acked = EmptyDict
    /\ calls = 0

\* a call on self whose outcome is out
Called(op, args, out) ==
    /\ calls < MaxCalls
    /\ calls' = calls + 1
    /\ objs' = [objs EXCEPT !.self = out.obj]
    /\ last' = [op |-> op, args |-> args, raised |-> out.raised,
                reqs |-> [NoReqs EXCEPT !.self = out.reqs], ret |-> out.ret,
                pre |-> objs]
    /\ acked' = AckAfter(acked, out.reqs)
    /\ UNCHANGED validation

DoSet ==
    \E fd \in FieldDicts : \E out \in Set(objs.self, fd, validation) :
        Called("set", [NoArgs EXCEPT !.fieldDict = fd], out)

DoSetItem ==
    \E k \in Keys, v \in Values :
        Called("__setitem__", [NoArgs EXCEPT !.k = k, !.v = v],
               SetItem(objs.self, k, v, validation))

DoSave ==
    /\ objs.self.cls = "Document"
    /\ \E resp \in Responses :
        Called("save", NoArgs, DocSave(objs.self, DocParams, resp, validation))

DoEdgeSave ==
    /\ objs.self.cls = "Edge"
    /\ \E resp \in Responses,
          f \in {NoneArg, DocArg(objs.fromV), StrArg(ServerId(1))},
          t \in {NoneArg, DocArg(objs.toV), StrArg(ServerId(2))} :
        Called("save", [NoArgs EXCEPT !.from = f, !.to = t],
               EdgeSave(objs.self, f, t, resp, validation))

DoForceSave ==
    \E resp \in Responses :
        Called("forceSave", NoArgs, ForceSave(objs.self, resp, validation))

DoSaveCopy ==
    \E resp \in Responses :
        Called("saveCopy", NoArgs, SaveCopy(objs.self, resp, validation))

DoPatch ==
    \E resp \in Responses :
        Called("patch", NoArgs, Patch(objs.self, resp, validation))

DoDelete ==
    \E resp \in Responses :
        Called("delete", NoArgs, Delete(objs.self, resp))

DoLinks ==
    /\ objs.self.cls = "Edge"
    /\ calls < MaxCalls
    /\ \E r1 \in VertexResponses, r2 \in VertexResponses, r3 \in Responses :
        LET l == Links(objs.self, objs.fromV, objs.toV, r1, r2, r3, validation)
        IN  /\ calls' = calls + 1
            /\ objs' = [self |-> l.edge.obj, fromV |-> l.fromV, toV |-> l.toV]
            /\ last' = [op |-> "links",
                        args |-> [NoArgs EXCEPT !.from = DocArg(l.fromV),
                                                !.to = DocArg(l.toV)],
                        raised |-> l.edge.raised,
                        reqs |-> [self |-> l.edge.reqs, fromV |-> l.freqs,
                                  toV |-> l.treqs],
                        ret |-> NoRet, pre |-> objs]
            /\ acked' = AckAfter(acked, l.edge.reqs)
            /\ UNCHANGED validation

Next ==
    \/ DoSet
    \/ DoSetItem
    \/ DoSave
    \/ DoEdgeSave
    \/ DoForceSave
    \/ DoSaveCopy
    \/ DoPatch
    \/ DoDelete
    \/ DoLinks

Spec == Init /\ [][Next]_vars

----------------------------------------------------------------------------
(* set() given every subset of the reserved keys *)

\* the dictionaries holding any subset of _id, _rev and _key of a server
\* answer, alone or with a field
SubsetDicts ==
    {Update(Del(ServerFields(NumServerIds), {"_id", "_rev", "_key"} \ S), extra) :
        S \in SUBSET {"_id", "_rev", "_key"}, extra \in {EmptyDict, [a |-> "1"]}}

DoSetSubset ==
    \E fd \in SubsetDicts : \E out \in Set(objs.self, fd, validation) :
        Called("set", [NoArgs EXCEPT !.fieldDict = fd], out)

NextSet ==
    \/ DoSetSubset
    \/ DoSetItem
    \/ DoSave
    \/ DoEdgeSave
    \/ DoPatch
    \/ DoDelete
    \/ DoSaveCopy

SpecSet == Init /\ [][NextSet]_vars

----------------------------------------------------------------------------
(* links() on vertices with a history *)

Vertices == {"fromV", "toV"}

\* a call on the vertex v whose outcome is out
VertexCalled(v, op, args, out) ==
    /\ calls < MaxCalls
    /\ calls' = calls + 1
    /\ objs' = [objs EXCEPT ![v] = out.obj]
    /\ last' = [op |-> op, args |-> args, raised |-> out.raised,
                reqs |-> [NoReqs EXCEPT ![v] = out.reqs], ret |-> out.ret,
                pre |-> objs]
    /\ UNCHANGED <<validation, acked>>

DoVertexSet ==
    \E v \in Vertices, fd \in FieldDicts : \E out \in Set(objs[v], fd, validation) :
        VertexCalled(v, "vertex.set", [NoArgs EXCEPT !.fieldDict = fd], out)

DoVertexSetItem ==
    \E v \in Vertices, k \in Keys, x \in Values :
        VertexCalled(v, "vertex.__setitem__", [NoArgs EXCEPT !.k = k, !.v = x],
                     SetItem(objs[v], k, x, validation))

DoVertexSave ==
    \E v \in Vertices, resp \in Responses :
        VertexCalled(v, "vertex.save", NoArgs,
                     DocSave(objs[v], DocParams, resp, validation))

DoVertexDelete ==
    \E v \in Vertices, resp \in Responses :
        VertexCalled(v, "vertex.delete", NoArgs, Delete(objs[v], resp))

NextLinks ==
    \/ DoVertexSet
    \/ DoVertexSetItem
    \/ DoVertexSave
    \/ DoVertexDelete
    \/ DoLinks

SpecLinks == Init /\ [][NextLinks]_vars

----------------------------------------------------------------------------
(* Properties *)

ObjNames == {"self", "fromV", "toV"}
ReservedKeys == {"_id", "_rev", "_key"}

\* the request o issued in the last call, when it issued one
Issued(o) == last.reqs[o] # <<>>
TheRequest(o) == last.reqs[o][Len(last.reqs[o])]

\* the last call was op on self
CallWas(op) == last.op = op

\* o has the same store, patch store, identity and endpoints as before the call
SameLocalState(o) ==
    /\ objs[o]._store = last.pre[o]._store
    /\ objs[o]._patchStore = last.pre[o]._patchStore
    /\ objs[o]._id = last.pre[o]._id
    /\ objs[o]._rev = last.pre[o]._rev
    /\ objs[o]._key = last.pre[o]._key
    /\ objs[o]._from = last.pre[o]._from
    /\ objs[o]._to = last.pre[o]._to

\* o issued a create in the last call and the server answered it with success
CreateAcked(o) ==
    /\ Issued(o)
    /\ TheRequest(o).verb = "POST"
    /\ SaveAccepted(TheRequest(o).resp)
    /\ ReservedKeys \subseteq DOMAIN TheRequest(o).resp.data

\* C1: right after a save that performed a create answered with success (201
\* or 202, no error flag, _id, _rev and _key in the answer), the resource id,
\* the revision and the key of the object are non-null and modified is false.
C1_CreateSetsIdentity ==
    \A o \in ObjNames :
        CreateAcked(o) =>
            /\ objs[o]._id # NoneV
            /\ objs[o]._rev # NoneV
            /\ objs[o]._key # NoneV
            /\ ~objs[o].modified

C1_Witness ==
    /\ CallWas("save")
    /\ CreateAcked("self")
    /\ objs.self._key = TheRequest("self").resp.data["_key"]

\* C2: doc[k] = v that passes validation sets modified, writes v to the store
\* and is mirrored into the patch store exactly when the document has a
\* resource id at that moment; without one the patch store is left as it was.
C2_SetItemMirrors ==
    (CallWas("__setitem__") /\ last.raised = NoError) =>
        LET pre == last.pre.self
            k == last.args.k
            v == last.args.v
        IN  /\ objs.self.modified
            /\ objs.self._store = Put(pre._store, k, v)
            /\ (pre._id # NoneV => objs.self._patchStore = Put(pre._patchStore, k, v))
            /\ (pre._id = NoneV => objs.self._patchStore = pre._patchStore)

C2_Witness ==
    /\ CallWas("__setitem__")
    /\ last.raised = NoError
    /\ last.pre.self._id # NoneV
    /\ last.args.k \notin DOMAIN last.pre.self._patchStore
    /\ last.args.k \in DOMAIN objs.self._patchStore

\* C3: whenever modified is false the store equals the content the server
\* acknowledged last.
C3_ModifiedTracksStore ==
    ~objs.self.modified => objs.self._store = acked

\* the last call handed the object the fields of a server answer: the
\* constructor or set, given _id, _rev and _key
Loaded ==
    /\ last.op \in {"__init__", "set"}
    /\ last.raised = NoError
    /\ ReservedKeys \subseteq DOMAIN last.args.fieldDict

\* C4: Document.save() right after the constructor or set() was given server
\* fields issues no request, raises nothing and changes nothing.
C4_RoundTripIsNoOp ==
    [][(/\ Loaded
        /\ objs.self.cls = "Document"
        /\ last'.op = "save"
        /\ calls' = calls + 1) =>
          /\ last'.reqs.self = <<>>
          /\ last'.raised = NoError
          /\ objs' = objs]_vars

\* C5: Document.save() with modified false issues no request, raises nothing
\* and changes nothing; forceSave() always issues a request.
C5_SaveNoOpForceSaveSends ==
    /\ (CallWas("save") /\ objs.self.cls = "Document" /\ ~last.pre.self.modified) =>
          /\ ~Issued("self")
          /\ last.raised = NoError
          /\ objs = last.pre
    /\ (CallWas("forceSave") /\ objs.self.cls = "Document") =>
          Len(last.reqs.self) = 1

\* C6: patch() on a document without a resource address raises the "not
\* previously saved" ValueError and issues no request, under every validation
\* setting.
C6_PatchUnsavedValueError ==
    (CallWas("patch") /\ last.pre.self.URL = NoneV) =>
        /\ last.raised = "ValueError"
        /\ ~Issued("self")

\* C7: delete() on a never-saved document raises DeletionError without a
\* request; a delete answered with success (200 or 202, no error flag) resets
\* id, revision and key to null, empties the store and the patch store and
\* leaves modified true.
C7_Delete ==
    CallWas("delete") =>
        /\ last.pre.self.URL = NoneV =>
              /\ last.raised = "DeletionError"
              /\ ~Issued("self")
        /\ (/\ last.pre.self.URL # NoneV
            /\ Issued("self")
            /\ TheRequest("self").resp.status \in {200, 202}
            /\ ~TheRequest("self").resp.error) =>
              /\ last.raised = NoError
              /\ objs.self._id = NoneV
              /\ objs.self._rev = NoneV
              /\ objs.self._key = NoneV
              /\ objs.self._store = EmptyDict
              /\ objs.self._patchStore = EmptyDict
              /\ objs.self.modified

C7_Witness ==
    /\ CallWas("delete")
    /\ last.pre.self._patchStore # EmptyDict
    /\ last.pre.self._store # EmptyDict
    /\ Issued("self")
    /\ TheRequest("self").resp.status = 200
    /\ last.raised = NoError
    /\ objs.self._id = NoneV

\* C8: Edge.save on an edge without a resource address, with fromVertice or
\* toVertice None, raises the "must specify from/to" ValueError, issues no
\* request and leaves _from and _to as they were.
C8_FirstEdgeSaveNeedsEndpoints ==
    (/\ CallWas("save")
     /\ objs.self.cls = "Edge"
     /\ last.pre.self.URL = NoneV
     /\ (last.args.from.kind = "None" \/ last.args.to.kind = "None")) =>
        /\ last.raised = "ValueError"
        /\ ~Issued("self")
        /\ objs.self._from = last.pre.self._from
        /\ objs.self._to = last.pre.self._to

C8_Witness ==
    /\ CallWas("save")
    /\ objs.self.cls = "Edge"
    /\ last.pre.self.URL = NoneV
    /\ last.args.from.kind = "Document"
    /\ last.args.to.kind = "None"
    /\ last.raised = "ValueError"

\* the last call was a save of the edge that the server accepted
EdgeSavedOK ==
    /\ last.op \in {"save", "links"}
    /\ objs.self.cls = "Edge"
    /\ last.raised = NoError
    /\ Issued("self")

\* C9: after a successful save of an Edge, save() without endpoints raises
\* nothing and _from and _to keep the values of the first save.
C9_EdgeSaveWithoutEndpoints ==
    [][(/\ EdgeSavedOK
        /\ last'.op = "save"
        /\ calls' = calls + 1
        /\ last'.args.from.kind = "None"
        /\ last'.args.to.kind = "None") =>
          /\ last'.raised = NoError
          /\ objs'.self._from = last.args.from.id
          /\ objs'.self._to = last.args.to.id]_vars

\* C10: when save, forceSave, saveCopy, patch, delete, Edge.save or links
\* raises, the store, the patch store, the identity and the endpoints of the
\* object are the same as before the call.
C10_FailureLeavesState ==
    (/\ last.op \in {"save", "forceSave", "saveCopy", "patch", "delete", "links"}
     /\ last.raised # NoError) =>
        SameLocalState("self")


\* C11: in every reachable state the resource id, the revision and the key of
\* an object are all unset or all set, and its URL is set exactly when its
\* resource id is.
C11_IdentityAllOrNone ==
    \A o \in ObjNames :
        /\ \/ objs[o]._id = NoneV /\ objs[o]._rev = NoneV /\ objs[o]._key = NoneV
           \/ objs[o]._id # NoneV /\ objs[o]._rev # NoneV /\ objs[o]._key # NoneV
        /\ (objs[o].URL # NoneV) <=> (objs[o]._id # NoneV)

\* set() given _id and _key without _rev on a persisted object
C11_Witness ==
    /\ CallWas("set")
    /\ DOMAIN last.args.fieldDict = {"_id", "_key"}
    /\ last.pre.self._id # NoneV
    /\ objs.self._id = NoneV
    /\ objs.self.URL = NoneV


\* C12: after a successful save() or patch(), and right after the constructor
\* or set() was given server fields, the patch store is empty.
C12_PatchStoreOnlyChanges ==
    (\/ /\ last.op \in {"save", "patch"}
        /\ last.raised = NoError
        /\ Issued("self")
     \/ Loaded) =>
        objs.self._patchStore = EmptyDict


\* C13: in every reachable state the keys of the patch store are keys of the
\* store.
C13_PatchKeysInStore ==
    \A o \in ObjNames : DOMAIN objs[o]._patchStore \subseteq DOMAIN objs[o]._store

\* a persisted object whose patch store holds a field after an assignment
C13_Witness ==
    /\ CallWas("__setitem__")
    /\ objs.self._patchStore # EmptyDict
    /\ DOMAIN objs.self._patchStore # DOMAIN objs.self._store
    /\ DOMAIN objs.self._patchStore \subseteq DOMAIN objs.self._store


\* C14: links fails without a request when the edge is persisted; otherwise,
\* when the create request of the edge is issued, both endpoint documents
\* have a resource id, whatever they went through before.
C14_LinksEndpointsHaveIds ==
    CallWas("links") =>
        /\ last.pre.self.URL # NoneV =>
              /\ last.raised = "AttributeError"
              /\ \A o \in ObjNames : ~Issued(o)
        /\ (last.pre.self.URL = NoneV /\ Issued("self")) =>
              /\ TheRequest("self").verb = "POST"
              /\ objs.fromV._id # NoneV
              /\ objs.toV._id # NoneV


\* the last call was the first save of the edge, accepted by the server
FirstEdgeSaveOK == EdgeSavedOK /\ last.pre.self.URL = NoneV

\* C15: once the first save of an edge succeeded, Edge.save, patch, forceSave
\* and field assignment leave _from and _to as they are.
C15_EndpointsImmutable ==
    [][(/\ FirstEdgeSaveOK
        /\ calls' = calls + 1
        /\ last'.op \in {"save", "patch", "forceSave", "__setitem__"}) =>
          /\ objs'.self._from = objs.self._from
          /\ objs'.self._to = objs.self._to]_vars


\* C16: after a successful first Edge.save(fromVertice, toVertice), answered
\* with _id, _rev, _key and the error flag alone, _from and _to of the edge
\* are the ids resolved from the two arguments.
C16_FirstSaveStoresEndpoints ==
    (/\ CallWas("save")
     /\ objs.self.cls = "Edge"
     /\ last.pre.self.URL = NoneV
     /\ CreateAcked("self")) =>
        /\ objs.self._from = last.args.from.id
        /\ objs.self._to = last.args.to.id


\* C17: save() of a modified document issues exactly one request carrying the
\* whole store: a POST to the documents URL without a resource id, else a PUT
\* to the URL of the resource; an accepted PUT changes the revision and the
\* modified flag alone; a refused POST raises CreationError, a refused PUT
\* UpdateError.
C17_SaveOneRequest ==
    (/\ CallWas("save")
     /\ objs.self.cls = "Document"
     /\ last.pre.self.modified) =>
        LET pre == last.pre.self
            r == TheRequest("self")
        IN  /\ Len(last.reqs.self) = 1
            /\ r.payload = pre._store
            /\ pre._id = NoneV => (r.verb = "POST" /\ r.url = documentsURL)
            /\ pre._id # NoneV => (r.verb = "PUT" /\ r.url = pre.URL)
            /\ (r.verb = "PUT" /\ SaveAccepted(r.resp)) =>
                  /\ last.raised = NoError
                  /\ objs.self = [pre EXCEPT !._rev = r.resp.data["_rev"],
                                             !.modified = FALSE]
            /\ (r.verb = "POST" /\ ~SaveAccepted(r.resp)) =>
                  last.raised = "CreationError"
            /\ (r.verb = "PUT" /\ ~SaveAccepted(r.resp)) =>
                  last.raised = "UpdateError"

\* C18: patch() on a persisted document issues a PATCH carrying the patch
\* store exactly when the patch store is not empty; accepted, it replaces the
\* revision and clears modified; with an empty patch store it issues nothing
\* and changes nothing.
C18_PatchSendsPatchStore ==
    (CallWas("patch") /\ last.pre.self.URL # NoneV) =>
        LET pre == last.pre.self
            r == TheRequest("self")
        IN  /\ Issued("self") <=> (pre._patchStore # EmptyDict)
            /\ Issued("self") =>
                  /\ Len(last.reqs.self) = 1
                  /\ r.verb = "PATCH"
                  /\ r.url = pre.URL
                  /\ r.payload = pre._patchStore
                  /\ SaveAccepted(r.resp) =>
                        /\ last.raised = NoError
                        /\ objs.self._rev = r.resp.data["_rev"]
                        /\ ~objs.self.modified
            /\ pre._patchStore = EmptyDict =>
                  /\ last.raised = NoError
                  /\ objs.self = pre

\* C20: saveCopy() on any Document issues a create with an empty store as
\* payload; accepted, it returns (key before the call, new key) and leaves
\* the object persisted under the new identity with an empty store, an empty
\* patch store and modified false.
C20_SaveCopyCreatesEmpty ==
    (CallWas("saveCopy") /\ objs.self.cls = "Document") =>
        LET pre == last.pre.self
            r == TheRequest("self")
        IN  /\ Len(last.reqs.self) = 1
            /\ r.verb = "POST"
            /\ r.payload = EmptyDict
            /\ SaveAccepted(r.resp) =>
                  /\ last.raised = NoError
                  /\ last.ret = <<pre._key, r.resp.data["_key"]>>
                  /\ objs.self._id = r.resp.data["_id"]
                  /\ objs.self._key = r.resp.data["_key"]
                  /\ objs.self.URL # NoneV
                  /\ objs.self._store = EmptyDict
                  /\ objs.self._patchStore = EmptyDict
                  /\ ~objs.self.modified


\* C19: set() given none or not all of _id, _rev and _key leaves the resource
\* id, the revision, the key and the URL of a persisted object as they were.
C19_SetKeepsIdentity ==
    (/\ CallWas("set")
     /\ ~(ReservedKeys \subseteq DOMAIN last.args.fieldDict)
     /\ last.pre.self.URL # NoneV) =>
        /\ objs.self._id = last.pre.self._id
        /\ objs.self._rev = last.pre.self._rev
        /\ objs.self._key = last.pre.self._key
        /\ objs.self.URL = last.pre.self.URL

====
